---- MODULE Spec2Model ----
(***************************************************************************)
(* A model of the astro-carta date/time library: the calendar utilities    *)
(* (datetime.rs, datetime/utils.rs, datetime/month.rs), the TimeDelta type *)
(* (datetime/timedelta.rs) and the construction of an Instant from civil   *)
(* fields.                                                                 *)
(*                                                                         *)
(* The library is a set of pure functions.  The state machine below is a   *)
(* caller: each action picks arguments, calls one function and records     *)
(* the arguments and the outcome.                                          *)
(*                                                                         *)
(* Rust's i128 does not fit the integers of the model checker, so an i128  *)
(* value is a sign and a magnitude, the magnitude a little-endian sequence *)
(* of limbs in radix Base with no leading zero limb.  The values of the    *)
(* narrow types (u8, u16, i32, usize) are ordinary integers.               *)
(***************************************************************************)
EXTENDS Integers, Sequences, FiniteSets, TLC

VARIABLES
    overflow_checks,  \* the build: TRUE = overflow checks on (debug profile)
    op,               \* the function called last
    args,             \* its arguments
    ret               \* its outcome

vars == <<overflow_checks, op, args, ret>>

(***************************************************************************)
(* Wide integers: magnitudes.                                              *)
(***************************************************************************)
Base == 10000

Limb(a, i) == IF i <= Len(a) THEN a[i] ELSE 0

RECURSIVE Trim(_)
Trim(s) ==
    IF s = <<>> THEN <<>>
    ELSE IF s[Len(s)] = 0 THEN Trim(SubSeq(s, 1, Len(s) - 1))
    ELSE s

RECURSIVE MagOf(_)
MagOf(n) == IF n = 0 THEN <<>> ELSE <<n % Base>> \o MagOf(n \div Base)

RECURSIVE MagCmpFrom(_, _, _)
MagCmpFrom(a, b, i) ==
    IF i = 0 THEN 0
    ELSE IF a[i] < b[i] THEN -1
    ELSE IF a[i] > b[i] THEN 1
    ELSE MagCmpFrom(a, b, i - 1)

MagCmp(a, b) ==
    IF Len(a) < Len(b) THEN -1
    ELSE IF Len(a) > Len(b) THEN 1
    ELSE MagCmpFrom(a, b, Len(a))

RECURSIVE MagAddFrom(_, _, _, _)
MagAddFrom(a, b, i, carry) ==
    IF i > Len(a) /\ i > Len(b)
    THEN IF carry = 0 THEN <<>> ELSE <<carry>>
    ELSE LET s == Limb(a, i) + Limb(b, i) + carry
         IN  <<s % Base>> \o MagAddFrom(a, b, i + 1, s \div Base)

MagAdd(a, b) == MagAddFrom(a, b, 1, 0)

\* a - b for a >= b
RECURSIVE MagSubFrom(_, _, _, _)
MagSubFrom(a, b, i, borrow) ==
    IF i > Len(a) THEN <<>>
    ELSE LET d == a[i] - Limb(b, i) - borrow
         IN  IF d < 0
             THEN <<d + Base>> \o MagSubFrom(a, b, i + 1, 1)
             ELSE <<d>> \o MagSubFrom(a, b, i + 1, 0)

MagSub(a, b) == Trim(MagSubFrom(a, b, 1, 0))

\* a * k for one limb k
RECURSIVE MagMulSmallFrom(_, _, _, _)
MagMulSmallFrom(a, k, i, carry) ==
    IF i > Len(a)
    THEN IF carry = 0 THEN <<>> ELSE <<carry>>
    ELSE LET p == a[i] * k + carry
         IN  <<p % Base>> \o MagMulSmallFrom(a, k, i + 1, p \div Base)

MagMulSmall(a, k) == Trim(MagMulSmallFrom(a, k, 1, 0))

MagShift(a) == IF a = <<>> THEN <<>> ELSE <<0>> \o a

RECURSIVE MagMul(_, _)
MagMul(a, b) ==
    IF b = <<>> THEN <<>>
    ELSE MagAdd(MagMulSmall(a, Head(b)), MagShift(MagMul(a, Tail(b))))

\* the largest q in lo..hi with q * d <= r
RECURSIVE QuotLimb(_, _, _, _)
QuotLimb(r, d, lo, hi) ==
    IF lo = hi THEN lo
    ELSE LET mid == (lo + hi + 1) \div 2
         IN  IF MagCmp(MagMulSmall(d, mid), r) <= 0
             THEN QuotLimb(r, d, mid, hi)
             ELSE QuotLimb(r, d, lo, mid - 1)

\* long division by d of the number made of the limbs i .. Len(a) of a
RECURSIVE MagDivModFrom(_, _, _)
MagDivModFrom(a, d, i) ==
    IF i > Len(a) THEN [q |-> <<>>, r |-> <<>>]
    ELSE LET hi == MagDivModFrom(a, d, i + 1)
             r1 == Trim(<<a[i]>> \o hi.r)
             small == a[i] + Base * (IF hi.r = <<>> THEN 0 ELSE hi.r[1])
             ql == IF Len(d) = 1 THEN small \div d[1]
                   ELSE IF MagCmp(r1, d) < 0 THEN 0
                   ELSE QuotLimb(r1, d, 0, Base - 1)
         IN  IF Len(d) = 1
             THEN [q |-> <<ql>> \o hi.q, r |-> MagOf(small % d[1])]
             ELSE [q |-> <<ql>> \o hi.q,
                   r |-> MagSub(r1, MagMulSmall(d, ql))]

MagDivMod(a, d) ==
    LET qr == MagDivModFrom(a, d, 1)
    IN  [q |-> Trim(qr.q), r |-> qr.r]

(***************************************************************************)
(* Wide integers: signed values and the exact (unbounded) operations.      *)
(***************************************************************************)
W(neg, mag) == [neg |-> neg /\ mag # <<>>, mag |-> mag]

FromInt(n) == IF n < 0 THEN W(TRUE, MagOf(-n)) ELSE W(FALSE, MagOf(n))

INeg(x) == W(~x.neg, x.mag)

IAbs(x) == W(FALSE, x.mag)

IAdd(x, y) ==
    IF x.neg = y.neg THEN W(x.neg, MagAdd(x.mag, y.mag))
    ELSE IF MagCmp(x.mag, y.mag) >= 0 THEN W(x.neg, MagSub(x.mag, y.mag))
    ELSE W(y.neg, MagSub(y.mag, x.mag))

ISub(x, y) == IAdd(x, INeg(y))

IMul(x, y) == W(x.neg # y.neg, MagMul(x.mag, y.mag))

ICmp(x, y) ==
    IF x.neg /\ ~y.neg THEN -1
    ELSE IF ~x.neg /\ y.neg THEN 1
    ELSE IF x.neg THEN MagCmp(y.mag, x.mag)
    ELSE MagCmp(x.mag, y.mag)

ILt(x, y) == ICmp(x, y) < 0
ILe(x, y) == ICmp(x, y) <= 0
IGt(x, y) == ICmp(x, y) > 0
IGe(x, y) == ICmp(x, y) >= 0

\* Rust's / and % on integers: the quotient truncates toward zero and the
\* remainder has the sign of the dividend
IDiv(x, y) == W(x.neg # y.neg, MagDivMod(x.mag, y.mag).q)
IRem(x, y) == W(x.neg, MagDivMod(x.mag, y.mag).r)

\* the value of a wide integer known to be small
RECURSIVE MagToInt(_)
MagToInt(m) == IF m = <<>> THEN 0 ELSE Head(m) + Base * MagToInt(Tail(m))

ToInt(x) == IF x.neg THEN -MagToInt(x.mag) ELSE MagToInt(x.mag)

RECURSIVE IPow2Of(_)
IPow2Of(n) ==
    IF n = 0 THEN FromInt(1)
    ELSE IF n % 2 = 0 THEN LET h == IPow2Of(n \div 2) IN IMul(h, h)
    ELSE IMul(FromInt(2), IPow2Of(n - 1))

\* 2^n, the powers up to 2^255 computed once
Pow2Table == [n \in 0 .. 255 |-> IPow2Of(n)]
IPow2(n) == IF n <= 255 THEN Pow2Table[n] ELSE IPow2Of(n)

I128_MAX == ISub(IPow2(127), FromInt(1))
I128_MIN == INeg(IPow2(127))

InI128(x) == ILe(I128_MIN, x) /\ ILe(x, I128_MAX)

\* two's-complement wrapping of an exact result into i128
WrapI128(x) ==
    IF IGt(x, I128_MAX) THEN ISub(x, IPow2(128))
    ELSE IF ILt(x, I128_MIN) THEN IAdd(x, IPow2(128))
    ELSE x

(***************************************************************************)
(* Option and Result values.                                               *)
(***************************************************************************)
None == [some |-> FALSE]
Some(v) == [some |-> TRUE, v |-> v]

Ok(v) == [ok |-> TRUE, v |-> v]
Err(e) == [ok |-> FALSE, e |-> e]

(***************************************************************************)
(* Narrow integer types and the casts the calendar code uses.              *)
(***************************************************************************)
U8 == 0 .. 255

\* `x as u8` for x: i128 keeps the low eight bits
AsU8(x) ==
    LET r == ToInt(IRem(x, FromInt(256)))
    IN  IF r < 0 THEN r + 256 ELSE r

\* `{:?}` of an i32: decimal digits, with a leading '-' when negative
Digit(d) ==
    CASE d = 0 -> "0" [] d = 1 -> "1" [] d = 2 -> "2" [] d = 3 -> "3"
      [] d = 4 -> "4" [] d = 5 -> "5" [] d = 6 -> "6" [] d = 7 -> "7"
      [] d = 8 -> "8" [] d = 9 -> "9"

RECURSIVE FmtNat(_)
FmtNat(n) == IF n < 10 THEN Digit(n) ELSE FmtNat(n \div 10) \o Digit(n % 10)

FmtI32(n) == IF n < 0 THEN "-" \o FmtNat(-n) ELSE FmtNat(n)

(***************************************************************************)
(* datetime/month.rs                                                       *)
(***************************************************************************)
\* days_in_month with the leap-year adjustment left out
days_in_month_no_leap(month, is_leap) ==
    IF month \in {1, 3, 5, 7, 8, 10, 12} THEN Some(31)
    ELSE IF month = 2 THEN Some(28)
    ELSE IF month \in {4, 6, 9, 11} THEN Some(30)
    ELSE None

\* month: u8
days_in_month(month, is_leap) ==
    IF month \notin {1, 3, 5, 7, 8, 10, 12} \cup {2} \cup {4, 6, 9, 11}
    THEN None
    ELSE LET days == CASE month \in {1, 3, 5, 7, 8, 10, 12} -> 31
                       [] month = 2 -> 28
                       [] month \in {4, 6, 9, 11} -> 30
         IN  IF month = 2 /\ is_leap THEN Some(days + 1) ELSE Some(days)

cummulative_days_leap == <<0, 31, 60, 91, 121, 152, 182, 213, 244, 274, 305, 335>>
cummulative_days_common == <<0, 31, 59, 90, 120, 151, 181, 212, 243, 273, 304, 334>>

\* cummulative_days_for_month taking months numbered from 0
cummulative_days_for_month_from_zero(month, is_leap) ==
    IF month > 11 THEN None
    ELSE IF is_leap THEN Some(cummulative_days_leap[month + 1])
    ELSE Some(cummulative_days_common[month + 1])

\* cummulative_days_for_month with the two tables exchanged
cummulative_days_for_month_swapped(month, is_leap) ==
    IF month < 1 \/ month > 12 THEN None
    ELSE IF is_leap THEN Some(cummulative_days_common[(month - 1) + 1])
    ELSE Some(cummulative_days_leap[(month - 1) + 1])

\* cummulative_days_for_month with the common-year table for every year
cummulative_days_for_month_common(month, is_leap) ==
    IF month < 1 \/ month > 12 THEN None
    ELSE Some(cummulative_days_common[(month - 1) + 1])

\* month: u8; the table index `month as usize - 1` counts from 0
cummulative_days_for_month(month, is_leap) ==
    IF month < 1 \/ month > 12 THEN None
    ELSE IF is_leap THEN Some(cummulative_days_leap[(month - 1) + 1])
    ELSE Some(cummulative_days_common[(month - 1) + 1])

(***************************************************************************)
(* datetime.rs                                                             *)
(***************************************************************************)
\* month_id: i32
datetime_days_in_month(month_id, is_leap) ==
    IF month_id \notin {1, 3, 5, 7, 8, 10, 12} \cup {2} \cup {4, 6, 9, 11}
    THEN Err("Invalid month_id=" \o FmtI32(month_id))
    ELSE LET days == CASE month_id \in {1, 3, 5, 7, 8, 10, 12} -> 31
                       [] month_id = 2 -> 28
                       [] month_id \in {4, 6, 9, 11} -> 30
         IN  IF month_id = 2 /\ is_leap THEN Ok(days + 1) ELSE Ok(days)

(***************************************************************************)
(* datetime/utils.rs; year, month and day are i128                         *)
(***************************************************************************)
\* is_leap_year with the century rules left out
is_leap_year_julian(year) == IRem(year, FromInt(4)) = FromInt(0)

is_leap_year(year) ==
    \/ /\ IRem(year, FromInt(4)) = FromInt(0)
       /\ IRem(year, FromInt(100)) # FromInt(0)
    \/ IRem(year, FromInt(400)) = FromInt(0)

MAX_YEAR == IMul(FromInt(100000), FromInt(1000000))

\* is_valid_year with the ceiling itself rejected
is_valid_year_exclusive(year) ==
    IF ILt(year, FromInt(1)) \/ IGe(year, MAX_YEAR) THEN FALSE
    ELSE TRUE

is_valid_year(year) ==
    IF ILt(year, FromInt(1)) \/ IGt(year, MAX_YEAR) THEN FALSE
    ELSE TRUE

\* is_valid_year_month with the month left unchecked
is_valid_year_month_any_month(year, month) ==
    IF ~is_valid_year(year) THEN FALSE
    ELSE TRUE

is_valid_year_month(year, month) ==
    IF ~is_valid_year(year) THEN FALSE
    ELSE IF ILt(month, FromInt(1)) \/ IGt(month, FromInt(12)) THEN FALSE
    ELSE TRUE

\* is_valid_year_month_day with every year taken for a common year
is_valid_year_month_day_common(year, month, day) ==
    IF ~is_valid_year_month(year, month) THEN FALSE
    ELSE IF ILt(day, FromInt(1)) THEN FALSE
    ELSE LET dim == days_in_month(AsU8(month), FALSE)
         IN  IF dim.some
             THEN IF IGt(day, FromInt(dim.v)) THEN FALSE ELSE TRUE
             ELSE FALSE

is_valid_year_month_day(year, month, day) ==
    IF ~is_valid_year_month(year, month) THEN FALSE
    ELSE IF ILt(day, FromInt(1)) THEN FALSE
    ELSE LET dim == days_in_month(AsU8(month), is_leap_year(year))
         IN  IF dim.some
             THEN IF IGt(day, FromInt(dim.v)) THEN FALSE ELSE TRUE
             ELSE FALSE

\* day_of_year with the validation left out
day_of_year_unvalidated(year, month, day) ==
    LET cumul_days ==
            cummulative_days_for_month(AsU8(month), is_leap_year(year))
    IN  IF cumul_days.some
        THEN Some(IAdd(day, FromInt(cumul_days.v)))
        ELSE None

\* day_of_year counting from 0
day_of_year_zero_based(year, month, day) ==
    IF ~is_valid_year_month_day(year, month, day) THEN None
    ELSE LET cumul_days ==
                 cummulative_days_for_month(AsU8(month), is_leap_year(year))
         IN  IF cumul_days.some
             THEN Some(ISub(IAdd(day, FromInt(cumul_days.v)), FromInt(1)))
             ELSE None

day_of_year(year, month, day) ==
    IF ~is_valid_year_month_day(year, month, day) THEN None
    ELSE LET cumul_days ==
                 cummulative_days_for_month(AsU8(month), is_leap_year(year))
         IN  IF cumul_days.some
             THEN Some(IAdd(day, FromInt(cumul_days.v)))
             ELSE None

(***************************************************************************)
(* i128 arithmetic as the build compiles it.  An operation whose exact     *)
(* result leaves the i128 range panics when the build has overflow checks  *)
(* (the dev and test profiles) and wraps in two's complement when it has   *)
(* not (the release profile).                                              *)
(***************************************************************************)
Panic == [panic |-> TRUE]
Returns(v) == [panic |-> FALSE, v |-> v]

Overflowing(exact) ==
    IF InI128(exact) THEN Returns(exact)
    ELSE IF overflow_checks THEN Panic
    ELSE Returns(WrapI128(exact))

i128_add(x, y) == Overflowing(IAdd(x, y))
i128_sub(x, y) == Overflowing(ISub(x, y))
i128_neg(x) == Overflowing(INeg(x))
i128_abs(x) == Overflowing(IAbs(x))

(***************************************************************************)
(* datetime/timedelta.rs                                                   *)
(***************************************************************************)
NANOSECONDS_PER_MICROSECOND == FromInt(1000)
NANOSECONDS_PER_MILLISECOND == IMul(FromInt(1000), NANOSECONDS_PER_MICROSECOND)
NANOSECONDS_PER_SECOND == IMul(FromInt(1000), NANOSECONDS_PER_MILLISECOND)
NANOSECONDS_PER_MINUTE == IMul(FromInt(60), NANOSECONDS_PER_SECOND)
NANOSECONDS_PER_HOUR == IMul(FromInt(60), NANOSECONDS_PER_MINUTE)
NANOSECONDS_PER_DAY == IMul(FromInt(24), NANOSECONDS_PER_HOUR)

TimeDelta_new(nanoseconds) == [nanoseconds |-> nanoseconds]

\* Ord::cmp comparing the magnitudes of the counts
TimeDelta_cmp_magnitude(self, other) ==
    MagCmp(self.nanoseconds.mag, other.nanoseconds.mag)

\* #[derive(PartialEq, Eq, PartialOrd, Ord)]: the one field is compared;
\* an Ordering is -1 (Less), 0 (Equal) or 1 (Greater)
TimeDelta_cmp(self, other) == ICmp(self.nanoseconds, other.nanoseconds)
TimeDelta_partial_cmp(self, other) == Some(TimeDelta_cmp(self, other))
TimeDelta_eq(self, other) == self.nanoseconds = other.nanoseconds
TimeDelta_ne(self, other) == ~TimeDelta_eq(self, other)
TimeDelta_lt(self, other) == TimeDelta_partial_cmp(self, other) = Some(-1)
TimeDelta_le(self, other) ==
    TimeDelta_partial_cmp(self, other) \in {Some(-1), Some(0)}
TimeDelta_gt(self, other) == TimeDelta_partial_cmp(self, other) = Some(1)
TimeDelta_ge(self, other) ==
    TimeDelta_partial_cmp(self, other) \in {Some(1), Some(0)}

days_component(self) ==
    LET a == i128_abs(self.nanoseconds)
    IN  IF a.panic THEN Panic
        ELSE Returns(IDiv(a.v, NANOSECONDS_PER_DAY))

hours_component(self) ==
    LET a == i128_abs(self.nanoseconds)
    IN  IF a.panic THEN Panic
        ELSE Returns(IDiv(IRem(a.v, NANOSECONDS_PER_DAY), NANOSECONDS_PER_HOUR))

minutes_component(self) ==
    LET a == i128_abs(self.nanoseconds)
    IN  IF a.panic THEN Panic
        ELSE Returns(IDiv(IRem(a.v, NANOSECONDS_PER_HOUR), NANOSECONDS_PER_MINUTE))

seconds_component(self) ==
    LET a == i128_abs(self.nanoseconds)
    IN  IF a.panic THEN Panic
        ELSE Returns(IDiv(IRem(a.v, NANOSECONDS_PER_MINUTE), NANOSECONDS_PER_SECOND))

nanoseconds_component(self) ==
    LET a == i128_abs(self.nanoseconds)
    IN  IF a.panic THEN Panic
        ELSE Returns(IRem(a.v, NANOSECONDS_PER_SECOND))

TimeDelta_add(self, rhs) ==
    LET n == i128_add(self.nanoseconds, rhs.nanoseconds)
    IN  IF n.panic THEN Panic ELSE Returns([nanoseconds |-> n.v])

TimeDelta_sub(self, rhs) ==
    LET n == i128_sub(self.nanoseconds, rhs.nanoseconds)
    IN  IF n.panic THEN Panic ELSE Returns([nanoseconds |-> n.v])

(***************************************************************************)
(* std::fmt of an i128, as Display for TimeDelta uses it.                  *)
(***************************************************************************)
\* one limb below the top one: four digits
Pad4(n) ==
    Digit(n \div 1000) \o Digit((n \div 100) % 10)
        \o Digit((n \div 10) % 10) \o Digit(n % 10)

\* the limbs i, i-1, .., 1 of m
RECURSIVE FmtLowLimbs(_, _)
FmtLowLimbs(m, i) == IF i = 0 THEN "" ELSE Pad4(m[i]) \o FmtLowLimbs(m, i - 1)

\* the decimal digits of a magnitude
FmtMag(m) ==
    IF m = <<>> THEN "0"
    ELSE FmtNat(m[Len(m)]) \o FmtLowLimbs(m, Len(m) - 1)

\* `{}`
FmtI128(x) == IF x.neg THEN "-" \o FmtMag(x.mag) ELSE FmtMag(x.mag)

RECURSIVE ZeroPad(_, _)
ZeroPad(digits, width) ==
    IF Len(digits) >= width THEN digits ELSE ZeroPad("0" \o digits, width)

\* `{:0width}`: the zeros go between the sign and the digits, and the sign
\* counts toward the width
FmtI128Padded(x, width) ==
    IF x.neg THEN "-" \o ZeroPad(FmtMag(x.mag), width - 1)
    ELSE ZeroPad(FmtMag(x.mag), width)

\* i128::signum
i128_signum(x) == IF x.neg THEN FromInt(-1) ELSE IF x.mag = <<>> THEN FromInt(0) ELSE FromInt(1)

\* the write of "{:02}:{:02}:{:02}.{:09}" after the text written so far
fmt_clock(self, written) ==
    LET h == hours_component(self)
        m == minutes_component(self)
        sec == seconds_component(self)
        n == nanoseconds_component(self)
    IN  IF h.panic \/ m.panic \/ sec.panic \/ n.panic THEN Panic
        ELSE Returns(written \o FmtI128Padded(h.v, 2) \o ":"
                         \o FmtI128Padded(m.v, 2) \o ":"
                         \o FmtI128Padded(sec.v, 2) \o "."
                         \o FmtI128Padded(n.v, 9))

\* Display with the sign written for zero as well
TimeDelta_fmt_sign_of_zero(self) ==
    LET sign == IF ILe(i128_signum(self.nanoseconds), FromInt(0)) THEN "-" ELSE ""
        days_component_ == days_component(self)
    IN  IF days_component_.panic THEN Panic
        ELSE LET days_abs == i128_abs(days_component_.v)
             IN  IF days_abs.panic THEN Panic
                 ELSE IF IGt(days_abs.v, FromInt(0))
                 THEN fmt_clock(self,
                          sign \o FmtI128(days_component_.v) \o " day"
                               \o (IF IGt(days_component_.v, FromInt(1))
                                   THEN "s" ELSE "")
                               \o " ")
                 ELSE fmt_clock(self, sign)

\* impl fmt::Display for TimeDelta; to_string() returns what fmt writes
TimeDelta_fmt(self) ==
    LET sign == IF ILt(i128_signum(self.nanoseconds), FromInt(0)) THEN "-" ELSE ""
        days_component_ == days_component(self)
    IN  IF days_component_.panic THEN Panic
        ELSE LET days_abs == i128_abs(days_component_.v)
             IN  IF days_abs.panic THEN Panic
                 ELSE IF IGt(days_abs.v, FromInt(0))
                 THEN fmt_clock(self,
                          sign \o FmtI128(days_component_.v) \o " day"
                               \o (IF IGt(days_component_.v, FromInt(1))
                                   THEN "s" ELSE "")
                               \o " ")
                 ELSE fmt_clock(self, sign)

(***************************************************************************)
(* f64.  A value is NaN, an infinity, or a finite number num * 2^exp with  *)
(* num a wide integer.  An operation computes the exact result and rounds  *)
(* it as IEEE 754 binary64 does: to a 53-bit significand whose lowest bit  *)
(* weighs at least 2^-1074, ties to even, and to an infinity from 2^1024.  *)
(***************************************************************************)
F64NaN == [class |-> "nan"]
F64Inf(neg) == [class |-> "inf", neg |-> neg]
F64(num, exp) == [class |-> "finite", num |-> num, exp |-> exp]

\* the smallest n of lo+1 .. hi with a < 2^n, for 2^lo <= a < 2^hi
RECURSIVE BitLenBetween(_, _, _)
BitLenBetween(a, lo, hi) ==
    IF hi = lo + 1 THEN hi
    ELSE LET mid == (lo + hi) \div 2
         IN  IF ILt(a, IPow2(mid)) THEN BitLenBetween(a, lo, mid)
             ELSE BitLenBetween(a, mid, hi)

RECURSIVE BitLenUpper(_, _)
BitLenUpper(a, n) == IF ILt(a, IPow2(n)) THEN n ELSE BitLenUpper(a, 2 * n)

\* the number of bits of |x|
BitLen(x) ==
    IF x.mag = <<>> THEN 0
    ELSE BitLenBetween(IAbs(x), 0, BitLenUpper(IAbs(x), 1))

\* the f64 nearest to the exact value num * 2^exp
f64_round(num, exp) ==
    LET bits == BitLen(num)
        shift == IF bits - 53 >= -1074 - exp THEN bits - 53 ELSE -1074 - exp
    IN  IF shift <= 0 THEN F64(num, exp)
        ELSE LET unit == IPow2(shift)
                 half == IPow2(shift - 1)
                 qr == MagDivMod(num.mag, unit.mag)
                 q == W(FALSE, qr.q)
                 r == W(FALSE, qr.r)
                 up == \/ IGt(r, half)
                       \/ r = half /\ IRem(q, FromInt(2)) # FromInt(0)
                 m == IF up THEN IAdd(q, FromInt(1)) ELSE q
             IN  IF BitLen(m) + exp + shift > 1024 THEN F64Inf(num.neg)
                 ELSE F64(W(num.neg, m.mag), exp + shift)

\* x * y on f64
f64_mul(x, y) ==
    IF x.class = "nan" \/ y.class = "nan" THEN F64NaN
    ELSE IF x.class = "inf"
    THEN IF y.class = "inf" THEN F64Inf(x.neg # y.neg)
         ELSE IF y.num.mag = <<>> THEN F64NaN
         ELSE F64Inf(x.neg # y.num.neg)
    ELSE IF y.class = "inf"
    THEN IF x.num.mag = <<>> THEN F64NaN ELSE F64Inf(x.num.neg # y.neg)
    ELSE f64_round(IMul(x.num, y.num), x.exp + y.exp)

\* x as f64, for an i128 x
i128_as_f64(x) == f64_round(x, 0)

\* x as i128, for an f64 x: the integer part, saturated; NaN gives 0
f64_as_i128(x) ==
    IF x.class = "nan" THEN FromInt(0)
    ELSE IF x.class = "inf" THEN (IF x.neg THEN I128_MIN ELSE I128_MAX)
    ELSE LET integer == IF x.exp >= 0 THEN IMul(x.num, IPow2(x.exp))
                        ELSE IDiv(x.num, IPow2(-x.exp))
         IN  IF IGt(integer, I128_MAX) THEN I128_MAX
             ELSE IF ILt(integer, I128_MIN) THEN I128_MIN
             ELSE integer

\* x < y and x <= y on f64; a comparison with NaN is false
f64_cmp(x, y) ==
    IF x.class = "inf" THEN (IF y.class = "inf" /\ y.neg = x.neg THEN 0
                             ELSE IF x.neg THEN -1 ELSE 1)
    ELSE IF y.class = "inf" THEN (IF y.neg THEN 1 ELSE -1)
    ELSE LET e == IF x.exp <= y.exp THEN x.exp ELSE y.exp
         IN  ICmp(IMul(x.num, IPow2(x.exp - e)), IMul(y.num, IPow2(y.exp - e)))

f64_lt(x, y) == x.class # "nan" /\ y.class # "nan" /\ f64_cmp(x, y) < 0
f64_le(x, y) == x.class # "nan" /\ y.class # "nan" /\ f64_cmp(x, y) <= 0

(***************************************************************************)
(* datetime/timedelta.rs: the constructors from a count of a unit          *)
(***************************************************************************)
\* (value * unit as f64) as i128
from_unit(value, unit) ==
    TimeDelta_new(f64_as_i128(f64_mul(value, i128_as_f64(unit))))

\* the unit constants of days, hours, minutes, seconds, milliseconds and
\* microseconds, the six constructors differing in nothing else
UnitNanoseconds ==
    [days |-> NANOSECONDS_PER_DAY, hours |-> NANOSECONDS_PER_HOUR,
     minutes |-> NANOSECONDS_PER_MINUTE, seconds |-> NANOSECONDS_PER_SECOND,
     milliseconds |-> NANOSECONDS_PER_MILLISECOND,
     microseconds |-> NANOSECONDS_PER_MICROSECOND]

(***************************************************************************)
(* The Instant type.  The sources hold the struct only (datetime.rs:       *)
(* DateTime with its tick count); the constructor from civil fields is     *)
(* modelled from its specification, section 4.3, steps 1 to 5.  year,      *)
(* month, day, hour and minute are wide integers, second is an f64.  The   *)
(* integer arithmetic is exact: for a valid year the count stays below     *)
(* 2^127.                                                                  *)
(***************************************************************************)
DateTime(ticks) == [ticks |-> ticks]

\* step 1, the time of day
is_valid_time_of_day(hour, minute, second) ==
    /\ ILe(FromInt(0), hour) /\ ILe(hour, FromInt(23))
    /\ ILe(FromInt(0), minute) /\ ILe(minute, FromInt(59))
    /\ f64_le(F64(FromInt(0), 0), second)
    /\ f64_lt(second, F64(FromInt(60), 0))

\* step 3; year - 1 >= 0 where this is used, so the quotients are floors
abs_days(year, day_of_year_) ==
    LET y == ISub(year, FromInt(1))
    IN  ISub(IAdd(IAdd(ISub(day_of_year_, FromInt(1)), IMul(FromInt(365), y)),
                  IAdd(IDiv(y, FromInt(4)), IDiv(y, FromInt(400)))),
             IDiv(y, FromInt(100)))

\* step 4
civil_nanoseconds(abs_days_, hour, minute, second) ==
    IAdd(IAdd(IMul(abs_days_, NANOSECONDS_PER_DAY),
              IMul(hour, NANOSECONDS_PER_HOUR)),
         IAdd(IMul(minute, NANOSECONDS_PER_MINUTE),
              f64_as_i128(f64_mul(second, i128_as_f64(NANOSECONDS_PER_SECOND)))))

from_gregorian(year, month, day, hour, minute, second) ==
    IF ~is_valid_year_month_day(year, month, day) THEN None
    ELSE IF ~is_valid_time_of_day(hour, minute, second) THEN None
    ELSE LET ordinal == day_of_year(year, month, day)
         IN  IF ~ordinal.some THEN None
             ELSE Some(DateTime(civil_nanoseconds(abs_days(year, ordinal.v),
                                                  hour, minute, second)))

(***************************************************************************)
(* The arguments the caller tries.                                         *)
(***************************************************************************)
MonthSlack == 2
DaySlack == 2
YearSlack == 1
MaxMonthId == 20
SmallYearSpan == 2400

\* years around the leap-rule and range boundaries, and the ends of i128
YearBases ==
    {FromInt(0), FromInt(4), FromInt(100), FromInt(400), FromInt(-400),
     FromInt(-100), FromInt(1900), FromInt(2000), FromInt(2024), MAX_YEAR}

Years ==
    {IAdd(y, FromInt(k)) : y \in YearBases, k \in -YearSlack .. YearSlack}
        \cup {I128_MIN, I128_MAX}

\* the years is_leap_year is tried on
LeapProbeYears ==
    Years \cup {FromInt(y) : y \in -SmallYearSpan .. SmallYearSpan}

\* months outside 1..=12 whose low eight bits are a month
MonthAliases == {FromInt(m + 256 * k) : m \in {1, 2, 12}, k \in {-1, 1}}

Months ==
    {FromInt(m) : m \in (1 - MonthSlack) .. (12 + MonthSlack)}
        \cup MonthAliases

Days == {FromInt(d) : d \in (1 - DaySlack) .. (31 + DaySlack)}
            \cup {I128_MIN, I128_MAX}

\* i32 month identifiers: a range around 1..=12, values that are a month
\* modulo 256, and values at the ends of i32
MonthIds ==
    (-MaxMonthId .. MaxMonthId)
        \cup {-2147483647, -255, 257, 268, 2147483647}

NanoSlack == 1
TripleSlack == 1

\* the duration of the library's own tests: 3 days 06:43:13.123456789
TestNanos ==
    IAdd(IMul(FromInt(3), NANOSECONDS_PER_DAY),
    IAdd(IMul(FromInt(6), NANOSECONDS_PER_HOUR),
    IAdd(IMul(FromInt(43), NANOSECONDS_PER_MINUTE),
    IAdd(IMul(FromInt(13), NANOSECONDS_PER_SECOND), FromInt(123456789)))))

NanoBases ==
    {FromInt(0), NANOSECONDS_PER_SECOND, NANOSECONDS_PER_MINUTE,
     NANOSECONDS_PER_HOUR, NANOSECONDS_PER_DAY,
     IMul(FromInt(2), NANOSECONDS_PER_DAY), TestNanos}

\* nanosecond counts around the unit boundaries, of both signs, and at the
\* two ends of i128
Nanos ==
    {IAdd(b, FromInt(k)) : b \in NanoBases, k \in -NanoSlack .. NanoSlack}
        \cup {INeg(IAdd(b, FromInt(k))) :
                  b \in NanoBases, k \in -NanoSlack .. NanoSlack}
        \cup {IAdd(I128_MIN, FromInt(k)) : k \in 0 .. NanoSlack}
        \cup {ISub(I128_MAX, FromInt(k)) : k \in 0 .. NanoSlack}

\* the counts tried three at a time
TripleNanos ==
    {FromInt(k) : k \in -TripleSlack .. TripleSlack}
        \cup {IAdd(I128_MIN, FromInt(k)) : k \in 0 .. TripleSlack}
        \cup {ISub(I128_MAX, FromInt(k)) : k \in 0 .. TripleSlack}

\* the counts compared: those tried three at a time and those of
\* test_equality and test_ordering
ComparedNanos == TripleNanos \cup {FromInt(100), FromInt(200), FromInt(300)}

ClockSlack == 1
MaxHalves == 17

Wide(high, low) == IAdd(IMul(FromInt(high), FromInt(100000000)), FromInt(low))

\* f64 literals: 0.1, 0.3, 0.7, 59.999999999 are the nearest doubles
F64Of(n) == F64(FromInt(n), 0)
F64Halves(n) == F64(FromInt(n), -1)
F64_0_1 == F64(Wide(36028797, 1896397), -55)
F64_0_3 == F64(Wide(54043195, 52844595), -54)
F64_0_7 == F64(Wide(31525197, 39159347), -52)
F64_59_999999999 == F64(Wide(84442493, 1178943), -47)

\* the arguments of the unit constructors: the multiples of one half up to
\* 8.5 (3.5 and 8.5 are those of the library's examples), decimal fractions,
\* a whole number of days whose nanoseconds need more than 53 bits, and the
\* values an f64 has beyond the i128 range
F64_8388609 == F64Of(8388609)
F64_1e30 == F64(Wide(71054273, 57601002), 47)
F64Neg(x) == IF x.class = "nan" THEN x
             ELSE IF x.class = "inf" THEN F64Inf(~x.neg)
             ELSE F64(INeg(x.num), x.exp)
UnitValues ==
    LET positive == {F64Halves(k) : k \in 0 .. MaxHalves}
                        \cup {F64_0_1, F64_0_3, F64_0_7, F64_59_999999999,
                              F64_8388609, F64_1e30, F64Inf(FALSE), F64NaN}
    IN  positive \cup {F64Neg(x) : x \in positive}

Hours == {FromInt(h + k) : h \in {0, 12, 23}, k \in -ClockSlack .. ClockSlack}
Minutes == {FromInt(m + k) : m \in {0, 30, 59}, k \in -ClockSlack .. ClockSlack}
Seconds ==
    {F64Halves(2 * s + k) : s \in {0, 60}, k \in -ClockSlack .. ClockSlack}
        \cup {F64Of(30), F64Halves(119), F64_0_3, F64_59_999999999,
              F64NaN, F64Inf(FALSE), F64Inf(TRUE)}

\* the civil dates and the time of day from_gregorian is tried with
CivilDates ==
    {<<FromInt(2024), FromInt(2), FromInt(29)>>,
     <<FromInt(2023), FromInt(2), FromInt(29)>>,
     <<FromInt(1), FromInt(1), FromInt(1)>>,
     <<MAX_YEAR, FromInt(12), FromInt(31)>>}
Midnight == <<FromInt(0), FromInt(0), F64Of(0)>>
CivilYears ==
    {FromInt(y + k) : y \in {1, 100, 400, 2024}, k \in -YearSlack .. YearSlack}
        \cup {IAdd(MAX_YEAR, FromInt(k)) : k \in -YearSlack .. YearSlack}

(***************************************************************************)
(* The caller.                                                             *)
(***************************************************************************)
Init ==
    /\ overflow_checks \in BOOLEAN
    /\ op = "init"
    /\ args = <<>>
    /\ ret = <<>>

CallDaysInMonth ==
    /\ op = "init"
    /\ \E month \in U8, is_leap \in BOOLEAN :
        /\ op' = "month::days_in_month"
        /\ args' = [month |-> month, is_leap_year |-> is_leap]
        /\ ret' = days_in_month(month, is_leap)
        /\ UNCHANGED overflow_checks

CallCummulativeDaysForMonth ==
    /\ op = "init"
    /\ \E month \in U8, is_leap \in BOOLEAN :
        /\ op' = "month::cummulative_days_for_month"
        /\ args' = [month |-> month, is_leap_year |-> is_leap]
        /\ ret' = cummulative_days_for_month(month, is_leap)
        /\ UNCHANGED overflow_checks

CallDatetimeDaysInMonth ==
    /\ op = "init"
    /\ \E month_id \in MonthIds, is_leap \in BOOLEAN :
        /\ op' = "datetime::days_in_month"
        /\ args' = [month_id |-> month_id, is_leap_year |-> is_leap]
        /\ ret' = datetime_days_in_month(month_id, is_leap)
        /\ UNCHANGED overflow_checks

CallIsLeapYear ==
    /\ op = "init"
    /\ \E year \in LeapProbeYears :
        /\ op' = "is_leap_year"
        /\ args' = [year |-> year]
        /\ ret' = is_leap_year(year)
        /\ UNCHANGED overflow_checks

CallIsValidYearMonthDay ==
    /\ op = "init"
    /\ \E year \in Years, month \in Months, day \in Days :
        /\ op' = "is_valid_year_month_day"
        /\ args' = [year |-> year, month |-> month, day |-> day]
        /\ ret' = is_valid_year_month_day(year, month, day)
        /\ UNCHANGED overflow_checks

CallDayOfYear ==
    /\ op = "init"
    /\ \E year \in Years, month \in Months, day \in Days :
        /\ op' = "day_of_year"
        /\ args' = [year |-> year, month |-> month, day |-> day]
        /\ ret' = day_of_year(year, month, day)
        /\ UNCHANGED overflow_checks

NextCalendar ==
    \/ CallDaysInMonth
    \/ CallCummulativeDaysForMonth
    \/ CallDatetimeDaysInMonth
    \/ CallIsLeapYear
    \/ CallIsValidYearMonthDay
    \/ CallDayOfYear

SpecCalendar == Init /\ [][NextCalendar]_vars

\* TimeDelta::new(n) and its five components
CallComponents ==
    /\ op = "init"
    /\ \E n \in Nanos :
        LET td == TimeDelta_new(n)
        IN  /\ op' = "components"
            /\ args' = [nanoseconds |-> n]
            /\ ret' = [days        |-> days_component(td),
                       hours       |-> hours_component(td),
                       minutes     |-> minutes_component(td),
                       seconds     |-> seconds_component(td),
                       nanoseconds |-> nanoseconds_component(td)]
            /\ UNCHANGED overflow_checks

\* a + b
CallAdd ==
    /\ op = "init"
    /\ \E a \in Nanos, b \in Nanos :
        /\ op' = "add"
        /\ args' = [a |-> TimeDelta_new(a), b |-> TimeDelta_new(b)]
        /\ ret' = TimeDelta_add(TimeDelta_new(a), TimeDelta_new(b))
        /\ UNCHANGED overflow_checks

\* a - b
CallSub ==
    /\ op = "init"
    /\ \E a \in Nanos, b \in Nanos :
        /\ op' = "sub"
        /\ args' = [a |-> TimeDelta_new(a), b |-> TimeDelta_new(b)]
        /\ ret' = TimeDelta_sub(TimeDelta_new(a), TimeDelta_new(b))
        /\ UNCHANGED overflow_checks

\* x + y for an x that is itself the outcome of an addition: the panic of the
\* inner addition is the panic of the whole expression
AddTo(x, y) == IF x.panic THEN Panic ELSE TimeDelta_add(x.v, y)
AddOf(x, y) == IF y.panic THEN Panic ELSE TimeDelta_add(x, y.v)

\* (a + b) + c and a + (b + c)
CallAddAdd ==
    /\ op = "init"
    /\ \E a \in TripleNanos, b \in TripleNanos, c \in TripleNanos :
        LET ta == TimeDelta_new(a)
            tb == TimeDelta_new(b)
            tc == TimeDelta_new(c)
        IN  /\ op' = "add_add"
            /\ args' = [a |-> ta, b |-> tb, c |-> tc]
            /\ ret' = [left  |-> AddTo(TimeDelta_add(ta, tb), tc),
                       right |-> AddOf(ta, TimeDelta_add(tb, tc))]
            /\ UNCHANGED overflow_checks

\* every comparison operator on the pair x, y
Comparisons(x, y) ==
    [lt |-> TimeDelta_lt(x, y), le |-> TimeDelta_le(x, y),
     gt |-> TimeDelta_gt(x, y), ge |-> TimeDelta_ge(x, y),
     eq |-> TimeDelta_eq(x, y), ne |-> TimeDelta_ne(x, y)]

CallCompare ==
    /\ op = "init"
    /\ \E a \in ComparedNanos, b \in ComparedNanos, c \in ComparedNanos :
        LET ta == TimeDelta_new(a)
            tb == TimeDelta_new(b)
            tc == TimeDelta_new(c)
        IN  /\ op' = "compare"
            /\ args' = [a |-> ta, b |-> tb, c |-> tc]
            /\ ret' = [ab |-> Comparisons(ta, tb), ba |-> Comparisons(tb, ta),
                       bc |-> Comparisons(tb, tc), ac |-> Comparisons(ta, tc)]
            /\ UNCHANGED overflow_checks

\* TimeDelta::days(value), TimeDelta::hours(value), ...
CallFromUnit ==
    /\ op = "init"
    /\ \E unit \in DOMAIN UnitNanoseconds, value \in UnitValues :
        /\ op' = "from_unit"
        /\ args' = [unit |-> unit, value |-> value]
        /\ ret' = from_unit(value, UnitNanoseconds[unit])
        /\ UNCHANGED overflow_checks

\* TimeDelta::new(n).to_string()
CallToString ==
    /\ op = "init"
    /\ \E n \in Nanos :
        /\ op' = "to_string"
        /\ args' = [nanoseconds |-> n]
        /\ ret' = TimeDelta_fmt(TimeDelta_new(n))
        /\ UNCHANGED overflow_checks

NextTimeDelta ==
    \/ CallComponents
    \/ CallAddAdd
    \/ CallAdd
    \/ CallSub
    \/ CallToString
    \/ CallCompare
    \/ CallFromUnit

SpecTimeDelta == Init /\ [][NextTimeDelta]_vars

CallFromGregorianDate ==
    /\ op = "init"
    /\ \E year \in CivilYears, month \in Months, day \in Days :
        /\ op' = "from_gregorian"
        /\ args' = [year |-> year, month |-> month, day |-> day,
                    hour |-> Midnight[1], minute |-> Midnight[2],
                    second |-> Midnight[3]]
        /\ ret' = from_gregorian(year, month, day,
                                 Midnight[1], Midnight[2], Midnight[3])
        /\ UNCHANGED overflow_checks

CallFromGregorianTime ==
    /\ op = "init"
    /\ \E date \in CivilDates, hour \in Hours, minute \in Minutes,
          second \in Seconds :
        /\ op' = "from_gregorian"
        /\ args' = [year |-> date[1], month |-> date[2], day |-> date[3],
                    hour |-> hour, minute |-> minute, second |-> second]
        /\ ret' = from_gregorian(date[1], date[2], date[3], hour, minute, second)
        /\ UNCHANGED overflow_checks

NextInstant ==
    \/ CallFromGregorianDate
    \/ CallFromGregorianTime

SpecInstant == Init /\ [][NextInstant]_vars

Next == NextCalendar \/ NextTimeDelta \/ NextInstant

Spec == Init /\ [][Next]_vars

(***************************************************************************)
(* The claims.                                                             *)
(***************************************************************************)
\* k divides the wide integer x
Divides(k, x) == MagDivMod(x.mag, MagOf(k)).r = <<>>

\* the small integer k is the wide integer x
Is(x, k) == x = FromInt(k)

\* the length of month m of the standard calendar
StandardDays(m, leap) ==
    IF m \in {1, 3, 5, 7, 8, 10, 12} THEN 31
    ELSE IF m \in {4, 6, 9, 11} THEN 30
    ELSE IF leap THEN 29 ELSE 28

\* C1: day_of_year(year, month, day) returns a value exactly when
\* is_valid_year_month_day(year, month, day) is true, the value being
\* day + cummulative_days_for_month(month, is_leap_year(year)), a lookup that
\* does not fail; for every other triple it returns no value.
C1_DayOfYearContract ==
    op = "day_of_year" =>
        IF is_valid_year_month_day(args.year, args.month, args.day)
        THEN \E m \in 1 .. 12 :
                 LET cumul == cummulative_days_for_month(m, is_leap_year(args.year))
                 IN  /\ Is(args.month, m)
                     /\ cumul.some
                     /\ ret = Some(IAdd(args.day, FromInt(cumul.v)))
        ELSE ret = None

C1_Witness ==
    /\ op = "day_of_year"
    /\ Is(args.year, 2024) /\ Is(args.month, 3) /\ Is(args.day, 16)
    /\ ret = Some(FromInt(76))

\* C2: is_valid_year_month_day(year, month, day) is true if and only if
\* 1 <= year <= 100_000_000_000, 1 <= month <= 12 and
\* 1 <= day <= days_in_month(month, is_leap_year(year)); February 29 is valid
\* exactly in the leap years, and the years 1 and 100_000_000_000 are accepted
\* while 0 and 100_000_000_001 are rejected.
C2_YearCeiling == IMul(FromInt(100000), FromInt(1000000))

C2_ValidDateIff ==
    op = "is_valid_year_month_day" =>
        LET yearOk == ILe(FromInt(1), args.year) /\ ILe(args.year, C2_YearCeiling)
            leap   == (Divides(4, args.year) /\ ~Divides(100, args.year))
                          \/ Divides(400, args.year)
        IN  /\ ret = (/\ yearOk
                      /\ \E m \in 1 .. 12 :
                             /\ Is(args.month, m)
                             /\ ILe(FromInt(1), args.day)
                             /\ ILe(args.day,
                                    FromInt(days_in_month(m, is_leap_year(args.year)).v)))
            /\ (yearOk /\ Is(args.month, 2) /\ Is(args.day, 29)) => (ret = leap)
            /\ (Is(args.year, 0) \/ args.year = IAdd(C2_YearCeiling, FromInt(1)))
                   => (ret = FALSE)
            /\ ((Is(args.year, 1) \/ args.year = C2_YearCeiling)
                    /\ Is(args.month, 1) /\ Is(args.day, 1)) => (ret = TRUE)

C2_Witness ==
    /\ op = "is_valid_year_month_day"
    /\ args.year = C2_YearCeiling /\ Is(args.month, 2) /\ Is(args.day, 29)
    /\ ret = TRUE

\* C3: for every month m in 1..=12 and both leap flags, days_in_month(m, leap)
\* succeeds with 31 for m in {1,3,5,7,8,10,12}, 30 for m in {4,6,9,11}, and for
\* m = 2 with 29 when leap and 28 when not; the flag changes the result of no
\* other month.  This holds of month::days_in_month and of
\* datetime::days_in_month.
C3_DaysInMonthTable ==
    /\ (op = "month::days_in_month" /\ args.month \in 1 .. 12) =>
           /\ ret = Some(StandardDays(args.month, args.is_leap_year))
           /\ args.month # 2 =>
                  ret = days_in_month(args.month, ~args.is_leap_year)
    /\ (op = "datetime::days_in_month" /\ args.month_id \in 1 .. 12) =>
           /\ ret = Ok(StandardDays(args.month_id, args.is_leap_year))
           /\ args.month_id # 2 =>
                  ret = datetime_days_in_month(args.month_id, ~args.is_leap_year)

C3_Witness ==
    /\ op = "month::days_in_month"
    /\ args.month = 2 /\ args.is_leap_year
    /\ ret = Some(29)

RECURSIVE SumOfDaysInMonths(_, _)
SumOfDaysInMonths(k, leap) ==
    IF k = 0 THEN 0
    ELSE days_in_month(k, leap).v + SumOfDaysInMonths(k - 1, leap)

C5_CumulativeIsSum ==
    (op = "month::cummulative_days_for_month" /\ args.month \in 1 .. 12) =>
        /\ ret = Some(SumOfDaysInMonths(args.month - 1, args.is_leap_year))
        /\ args.month = 1 => ret = Some(0)

C5_Witness ==
    /\ op = "month::cummulative_days_for_month"
    /\ args.month = 12 /\ args.is_leap_year
    /\ ret = Some(335)

\* C6: for every year, zero and the negative years included, is_leap_year(year)
\* is true if and only if year is divisible by 4 and not by 100, or divisible
\* by 400 (2000 and 2024 are leap, 1900 and 2021 are not); so
\* is_leap_year(y) = is_leap_year(y + 400) for every y that has a y + 400.
C6_LeapYearRule ==
    op = "is_leap_year" =>
        /\ ret = ((Divides(4, args.year) /\ ~Divides(100, args.year))
                      \/ Divides(400, args.year))
        /\ InI128(IAdd(args.year, FromInt(400))) =>
               ret = is_leap_year(IAdd(args.year, FromInt(400)))
        /\ (Is(args.year, 2000) \/ Is(args.year, 2024)) => ret = TRUE
        /\ (Is(args.year, 1900) \/ Is(args.year, 2021)) => ret = FALSE

C6_Witness ==
    /\ op = "is_leap_year"
    /\ Is(args.year, -400)
    /\ ret = TRUE

\* C7: for any i128 nanosecond count n, the minimum -2^127 included, the
\* components of TimeDelta::new(n) satisfy days*NANOSECONDS_PER_DAY +
\* hours*NANOSECONDS_PER_HOUR + minutes*NANOSECONDS_PER_MINUTE +
\* seconds*NANOSECONDS_PER_SECOND + nanoseconds = |n|, and every component
\* is computed without overflow.
C7_ComponentsRoundTrip ==
    op = "components" =>
        /\ ~ret.days.panic /\ ~ret.hours.panic /\ ~ret.minutes.panic
        /\ ~ret.seconds.panic /\ ~ret.nanoseconds.panic
        /\ IAdd(IMul(ret.days.v, NANOSECONDS_PER_DAY),
           IAdd(IMul(ret.hours.v, NANOSECONDS_PER_HOUR),
           IAdd(IMul(ret.minutes.v, NANOSECONDS_PER_MINUTE),
           IAdd(IMul(ret.seconds.v, NANOSECONDS_PER_SECOND),
                ret.nanoseconds.v)))) = IAbs(args.nanoseconds)

\* C8: TimeDelta addition is commutative and associative for all operands:
\* a + b = b + a and (a + b) + c = a + (b + c), both sides producing a value,
\* also when an intermediate sum leaves the i128 range on one side only.
C8_AddCommutativeAssociative ==
    /\ op = "add" =>
           /\ ~ret.panic
           /\ ret = TimeDelta_add(args.b, args.a)
    /\ op = "add_add" =>
           /\ ~ret.left.panic
           /\ ~ret.right.panic
           /\ ret.left = ret.right

\* C9: for all TimeDelta values a and b, b holding the minimum i128 count
\* included, a - b equals a + TimeDelta::new(-n_b) for b's raw count n_b;
\* subtraction is exactly the difference of the raw counts.
C9_SubIsAddOfNegation ==
    op = "sub" =>
        LET minus_b == i128_neg(args.b.nanoseconds)
        IN  /\ ~ret.panic
            /\ ret.v.nanoseconds
                   = ISub(args.a.nanoseconds, args.b.nanoseconds)
            /\ ~minus_b.panic
            /\ ret = TimeDelta_add(args.a, TimeDelta_new(minus_b.v))

\* C10: the TimeDelta + and - operators do not panic: for every pair of
\* operands each returns a TimeDelta, and none reaches an arithmetic-overflow
\* abort.
C10_AddSubNeverPanic ==
    op \in {"add", "sub"} => ~ret.panic

\* the text without its leading '-', if it has one
Unsigned(text) ==
    IF Len(text) > 0 /\ Head(text) = "-" THEN SubSeq(text, 2, Len(text))
    ELSE text

\* C11: the text form of a TimeDelta starts with '-' if and only if its raw
\* nanosecond count is negative, and for every n > 0 the text of
\* TimeDelta::new(-n) is '-' followed by the text of TimeDelta::new(n); the
\* sign is the first character and zero has none.
C11_SignPrefix ==
    (op = "to_string" /\ ~ret.panic) =>
        /\ (Len(ret.v) > 0 /\ Head(ret.v) = "-") <=> args.nanoseconds.neg
        /\ Is(args.nanoseconds, 0) => ret.v = "00:00:00.000000000"
        /\ IGt(args.nanoseconds, FromInt(0)) =>
               TimeDelta_fmt(TimeDelta_new(INeg(args.nanoseconds)))
                   = Returns("-" \o ret.v)
        /\ (args.nanoseconds.neg /\ args.nanoseconds # I128_MIN) =>
               TimeDelta_fmt(TimeDelta_new(INeg(args.nanoseconds)))
                   = Returns(Unsigned(ret.v))

C11_Witness ==
    /\ op = "to_string"
    /\ args.nanoseconds = INeg(TestNanos)
    /\ ret = Returns("-3 days 06:43:13.123456789")

DecimalDigits == {"0", "1", "2", "3", "4", "5", "6", "7", "8", "9"}

DigitValue(c) == CHOOSE d \in 0 .. 9 : Digit(d) = c

\* the number a string of digits reads as
RECURSIVE Reads(_)
Reads(digits) ==
    IF Len(digits) = 0 THEN 0
    ELSE 10 * Reads(SubSeq(digits, 1, Len(digits) - 1))
             + DigitValue(SubSeq(digits, Len(digits), Len(digits)))

AllDigits(text) ==
    \A i \in 1 .. Len(text) : SubSeq(text, i, i) \in DecimalDigits

\* text is HH:MM:SS.nnnnnnnnn for the time of day of |n| nanoseconds
IsClockOf(text, n) ==
    LET in_day == IRem(IAbs(n), NANOSECONDS_PER_DAY)
    IN  /\ Len(text) = 18
        /\ SubSeq(text, 3, 3) = ":" /\ SubSeq(text, 6, 6) = ":"
        /\ SubSeq(text, 9, 9) = "."
        /\ AllDigits(SubSeq(text, 1, 2)) /\ AllDigits(SubSeq(text, 4, 5))
        /\ AllDigits(SubSeq(text, 7, 8)) /\ AllDigits(SubSeq(text, 10, 18))
        /\ FromInt(Reads(SubSeq(text, 1, 2))) = IDiv(in_day, NANOSECONDS_PER_HOUR)
        /\ FromInt(Reads(SubSeq(text, 4, 5)))
               = IDiv(IRem(in_day, NANOSECONDS_PER_HOUR), NANOSECONDS_PER_MINUTE)
        /\ FromInt(Reads(SubSeq(text, 7, 8)))
               = IDiv(IRem(in_day, NANOSECONDS_PER_MINUTE), NANOSECONDS_PER_SECOND)
        /\ FromInt(Reads(SubSeq(text, 10, 18)))
               = IRem(in_day, NANOSECONDS_PER_SECOND)

\* C12: in the text form of a TimeDelta the day prefix appears if and only if
\* the day component is nonzero: day component 0 gives HH:MM:SS.nnnnnnnnn,
\* exactly 1 gives '1 day HH:MM:SS.nnnnnnnnn' (also when the value is
\* negative) and more than 1 gives '<days> days HH:MM:SS.nnnnnnnnn'; hours,
\* minutes and seconds are always 2 digits and nanoseconds 9 digits.
C12_DayPrefix ==
    (op = "to_string" /\ ~ret.panic) =>
        LET days == IDiv(IAbs(args.nanoseconds), NANOSECONDS_PER_DAY)
            body == Unsigned(ret.v)
            clock == SubSeq(body, Len(body) - 17, Len(body))
            prefix == SubSeq(body, 1, Len(body) - 18)
        IN  /\ Len(body) >= 18
            /\ IsClockOf(clock, args.nanoseconds)
            /\ Is(days, 0) <=> prefix = ""
            /\ Is(days, 1) <=> prefix = "1 day "
            /\ IGt(days, FromInt(1)) <=> prefix = FmtMag(days.mag) \o " days "
            /\ args.nanoseconds = TestNanos =>
                   ret.v = "3 days 06:43:13.123456789"
            /\ args.nanoseconds = INeg(NANOSECONDS_PER_DAY) =>
                   ret.v = "-1 day 00:00:00.000000000"

\* a date of the proleptic Gregorian calendar in the supported years
IsCivilDate(year, month, day) ==
    LET leap == (Divides(4, year) /\ ~Divides(100, year)) \/ Divides(400, year)
    IN  /\ ILe(FromInt(1), year) /\ ILe(year, C2_YearCeiling)
        /\ \E m \in 1 .. 12 :
               /\ Is(month, m)
               /\ ILe(FromInt(1), day)
               /\ ILe(day, FromInt(StandardDays(m, leap)))

\* the f64 x is the integer k
F64Is(x, k) == x.class = "finite" /\ f64_cmp(x, F64(FromInt(k), 0)) = 0

\* C13: from_gregorian yields no value whenever a field is invalid (the date
\* is not a date of the calendar, the hour is outside 0..23, the minute is
\* outside 0..59, the second is not in 0 <= second < 60; so for month 13,
\* February 30, hour 24, minute 60, second 60.0), and yields an Instant, whole,
\* for every valid input, 2024-02-29T12:00:00 among them.
C13_FromGregorianValidates ==
    op = "from_gregorian" =>
        LET dateOk == IsCivilDate(args.year, args.month, args.day)
            hourOk == \E h \in 0 .. 23 : Is(args.hour, h)
            minuteOk == \E m \in 0 .. 59 : Is(args.minute, m)
            secondOk == /\ args.second.class = "finite"
                        /\ f64_cmp(F64(FromInt(0), 0), args.second) <= 0
                        /\ f64_cmp(args.second, F64(FromInt(60), 0)) < 0
        IN  /\ ret.some = (dateOk /\ hourOk /\ minuteOk /\ secondOk)
            /\ ret.some => DOMAIN ret.v = {"ticks"}
            /\ ~ret.some => ret = None
            /\ (\/ Is(args.month, 13)
                \/ Is(args.month, 2) /\ Is(args.day, 30)
                \/ Is(args.hour, 24)
                \/ Is(args.minute, 60)
                \/ F64Is(args.second, 60)) => ret = None
            /\ (/\ Is(args.year, 2024) /\ Is(args.month, 2) /\ Is(args.day, 29)
                /\ Is(args.hour, 12) /\ Is(args.minute, 0)
                /\ F64Is(args.second, 0)) => ret.some

C13_Witness ==
    /\ op = "from_gregorian"
    /\ Is(args.year, 2024) /\ Is(args.month, 2) /\ Is(args.day, 29)
    /\ Is(args.hour, 12) /\ Is(args.minute, 0) /\ F64Is(args.second, 0)
    /\ ret.some
    /\ ret.v.ticks = IAdd(IMul(FromInt(738944), NANOSECONDS_PER_DAY),
                          IMul(FromInt(12), NANOSECONDS_PER_HOUR))

\* the calendar date after the date year-month-day
NextCivilDate(year, month, day) ==
    LET leap == (Divides(4, year) /\ ~Divides(100, year)) \/ Divides(400, year)
        m == ToInt(month)
    IN  IF ILt(day, FromInt(StandardDays(m, leap)))
        THEN <<year, month, IAdd(day, FromInt(1))>>
        ELSE IF m < 12 THEN <<year, FromInt(m + 1), FromInt(1)>>
        ELSE <<IAdd(year, FromInt(1)), FromInt(1), FromInt(1)>>

\* C14: the day count an Instant is built from, abs_days, is the number of
\* calendar days since 0001-01-01: 0 for 0001-01-01 and, for a valid date with
\* a valid next calendar date (the next day of the month, the first of the
\* next month, January 1 of the next year), one less than the count of that
\* next date; and the stored tick count is never negative.
C14_AbsDaysCountsDays ==
    (op = "from_gregorian" /\ ret.some) =>
        LET elapsed == IDiv(ret.v.ticks, NANOSECONDS_PER_DAY)
            next == NextCivilDate(args.year, args.month, args.day)
            after == from_gregorian(next[1], next[2], next[3],
                                    args.hour, args.minute, args.second)
        IN  /\ IGe(ret.v.ticks, FromInt(0))
            /\ elapsed = abs_days(args.year,
                                  day_of_year(args.year, args.month, args.day).v)
            /\ (Is(args.year, 1) /\ Is(args.month, 1) /\ Is(args.day, 1))
                   => Is(elapsed, 0)
            /\ IsCivilDate(next[1], next[2], next[3])
                   => /\ after.some
                      /\ after.v.ticks = IAdd(ret.v.ticks, NANOSECONDS_PER_DAY)

C14_Witness ==
    /\ op = "from_gregorian"
    /\ Is(args.year, 2024) /\ Is(args.month, 12) /\ Is(args.day, 31)
    /\ ret.some
    /\ ret.v.ticks = IMul(FromInt(739250), NANOSECONDS_PER_DAY)
    /\ NextCivilDate(args.year, args.month, args.day)
           = <<FromInt(2025), FromInt(1), FromInt(1)>>

\* the integer x is less than the integer y: y - x is positive
IntLess(x, y) == LET d == ISub(y, x) IN ~d.neg /\ d.mag # <<>>

\* C15: for two TimeDelta values exactly one of a < b, a == b, a > b holds;
\* every comparison (<, <=, ==, !=, >=, >) is the comparison of the raw counts
\* as integers; equal counts are equal TimeDeltas; the order is total and
\* transitive.
C15_OrderIsOrderOfCounts ==
    op = "compare" =>
        LET a == args.a.nanoseconds
            b == args.b.nanoseconds
        IN  /\ Cardinality({r \in {"lt", "eq", "gt"} : ret.ab[r]}) = 1
            /\ ret.ab.lt = IntLess(a, b)
            /\ ret.ab.gt = IntLess(b, a)
            /\ ret.ab.eq = (~IntLess(a, b) /\ ~IntLess(b, a))
            /\ ret.ab.le = ~IntLess(b, a)
            /\ ret.ab.ge = ~IntLess(a, b)
            /\ ret.ab.ne = ~ret.ab.eq
            /\ (a = b) => (ret.ab.eq /\ args.a = args.b)
            /\ ret.ab.le \/ ret.ba.le
            /\ (ret.ab.le /\ ret.ba.le) => ret.ab.eq
            /\ (ret.ab.lt /\ ret.bc.lt) => ret.ac.lt
            /\ (ret.ab.le /\ ret.bc.le) => ret.ac.le

C15_Witness ==
    /\ op = "compare"
    /\ args.a.nanoseconds = I128_MIN
    /\ Is(args.b.nanoseconds, -1)
    /\ Is(args.c.nanoseconds, 100)
    /\ ret.ab.lt /\ ret.bc.lt /\ ret.ac.lt /\ ret.ba.gt /\ ~ret.ab.eq

\* the nanoseconds of one unit
NanosecondsPer(unit) ==
    CASE unit = "days" -> IMul(FromInt(86400), IMul(FromInt(1000), FromInt(1000000)))
      [] unit = "hours" -> IMul(FromInt(3600), IMul(FromInt(1000), FromInt(1000000)))
      [] unit = "minutes" -> IMul(FromInt(60), IMul(FromInt(1000), FromInt(1000000)))
      [] unit = "seconds" -> IMul(FromInt(1000), FromInt(1000000))
      [] unit = "milliseconds" -> FromInt(1000000)
      [] unit = "microseconds" -> FromInt(1000)

\* the integer count is the f64 p with its fraction dropped
IsTruncationOf(count, p) ==
    /\ p.class = "finite"
    /\ IF p.exp >= 0 THEN count = IMul(p.num, IPow2(p.exp))
       ELSE LET scale == IPow2(-p.exp)
                scaled == IAbs(IMul(count, scale))
            IN  /\ count.mag = <<>> \/ count.neg = p.num.neg
                /\ ILe(scaled, IAbs(p.num))
                /\ ILt(ISub(IAbs(p.num), scale), scaled)

\* value * c, in exact arithmetic, is the integer n
ExactProductIs(value, c, n) ==
    /\ value.class = "finite"
    /\ IF value.exp >= 0 THEN n = IMul(IMul(value.num, c), IPow2(value.exp))
       ELSE IMul(n, IPow2(-value.exp)) = IMul(value.num, c)

\* the f64 x is k halves
F64IsHalves(x, k) == x.class = "finite" /\ f64_cmp(x, F64(FromInt(k), -1)) = 0

\* C16: a unit constructor returns the TimeDelta whose count is the product of
\* value and the unit's nanoseconds, its fraction dropped (toward zero for a
\* negative value too, never rounded); when the product is an integer the
\* count is that integer, as for days(3.5), hours(8.5), seconds(8.5) and
\* microseconds(8.5).
C16_UnitConstructorsTruncate ==
    op = "from_unit" =>
        LET c == NanosecondsPer(args.unit)
            count == ret.nanoseconds
            whole == IDiv(IMul(args.value.num, c), IPow2(-args.value.exp))
        IN  /\ IsTruncationOf(count, f64_mul(args.value, i128_as_f64(c)))
            /\ (args.value.class = "finite" /\ args.value.exp >= 0)
                   => ExactProductIs(args.value, c, count)
            /\ (/\ args.value.class = "finite" /\ args.value.exp < 0
                /\ ExactProductIs(args.value, c, whole))
                   => count = whole
            /\ (args.unit = "days" /\ F64IsHalves(args.value, 7))
                   => count = IMul(FromInt(3024), IMul(FromInt(100000), FromInt(1000000)))
            /\ (args.unit = "hours" /\ F64IsHalves(args.value, 17))
                   => count = IMul(FromInt(30600), IMul(FromInt(1000), FromInt(1000000)))
            /\ (args.unit = "seconds" /\ F64IsHalves(args.value, 17))
                   => count = IMul(FromInt(8500), FromInt(1000000))
            /\ (args.unit = "microseconds" /\ F64IsHalves(args.value, 17))
                   => count = FromInt(8500)

\* C17: narrowing the month to 8 bits never makes a month outside 1..=12 look
\* valid: for such a month, 257, 268 and -255 among them, whatever the year
\* and the day, is_valid_year_month_day returns false and day_of_year returns
\* no value; and where the narrowing is applied (the year and month were
\* accepted and the day is at least 1) it leaves the month as it is.
C17_NarrowingKeepsMonthsInvalid ==
    op \in {"is_valid_year_month_day", "day_of_year"} =>
        LET outside == \A m \in 1 .. 12 : ~Is(args.month, m)
            refused == IF op = "day_of_year" THEN ret = None ELSE ret = FALSE
        IN  /\ outside => refused
            /\ (\E k \in {257, 268, -255} : Is(args.month, k)) => refused
            /\ (/\ is_valid_year_month(args.year, args.month)
                /\ IGe(args.day, FromInt(1)))
                   => Is(args.month, AsU8(args.month))

C17_Witness ==
    /\ op = "day_of_year"
    /\ Is(args.year, 2024) /\ Is(args.month, 257) /\ Is(args.day, 1)
    /\ AsU8(args.month) = 1
    /\ ret = None

\* the month and day of the n-th day of a year, counting the months from m
RECURSIVE DateOfOrdinalFrom(_, _, _)
DateOfOrdinalFrom(n, leap, m) ==
    IF m = 12 \/ n <= StandardDays(m, leap) THEN <<m, n>>
    ELSE DateOfOrdinalFrom(n - StandardDays(m, leap), leap, m + 1)

DateOfOrdinal(n, leap) == DateOfOrdinalFrom(n, leap, 1)

\* C18: within a valid year day_of_year maps the valid (month, day) pairs one
\* to one and in calendar order onto 1..365 (1..366 in a leap year): January 1
\* has ordinal 1, December 31 has 365 or 366, the next valid date of the same
\* year has the ordinal one greater, and every ordinal is that of one date.
C18_DayOfYearBijection ==
    (op = "day_of_year" /\ ret.some) =>
        LET year == args.year
            leap == (Divides(4, year) /\ ~Divides(100, year)) \/ Divides(400, year)
            last == IF leap THEN 366 ELSE 365
            next == NextCivilDate(year, args.month, args.day)
        IN  /\ \E n \in 1 .. last :
                   /\ Is(ret.v, n)
                   /\ DateOfOrdinal(n, leap) = <<ToInt(args.month), ToInt(args.day)>>
            /\ (Is(args.month, 1) /\ Is(args.day, 1)) => Is(ret.v, 1)
            /\ (Is(args.month, 12) /\ Is(args.day, 31)) => Is(ret.v, last)
            /\ next[1] = year
                   => day_of_year(year, next[2], next[3])
                          = Some(IAdd(ret.v, FromInt(1)))
            /\ (Is(args.month, 1) /\ Is(args.day, 1))
                   => \A n \in 1 .. last :
                          day_of_year(year, FromInt(DateOfOrdinal(n, leap)[1]),
                                      FromInt(DateOfOrdinal(n, leap)[2]))
                              = Some(FromInt(n))

C18_Witness ==
    /\ op = "day_of_year"
    /\ Is(args.year, 2024) /\ Is(args.month, 2) /\ Is(args.day, 29)
    /\ ret = Some(FromInt(60))
    /\ NextCivilDate(args.year, args.month, args.day)
           = <<FromInt(2024), FromInt(3), FromInt(1)>>
    /\ day_of_year(FromInt(2024), FromInt(3), FromInt(1)) = Some(FromInt(61))

====
